---- MODULE Spec2Model ----
(***************************************************************************)
(* Model of app/page.tsx: the FlowchartMaker component (node list, edge    *)
(* list, add-node, connect, change handlers, PNG export) and the           *)
(* CustomNode component (inline label editor).                             *)
(*                                                                         *)
(* Representation.  Node ids are the decimal strings of integers ('1',     *)
(* `${Date.now()}`) and are modelled by the integer.  Labels are strings   *)
(* and are modelled by tuples: <<"Start">>, <<"Step", n>> for the template *)
(* `Step ${n}`, <<"typed", k>> for the k-th text a user can type.  Edge    *)
(* ids are modelled by tuples: <<"e", 1, 2>> for 'e1-2' and                *)
(* <<"reactflow__edge", s, t>> for the id the library generates.           *)
(*                                                                         *)
(* applyNodeChanges, applyEdgeChanges, addEdge and the delete interaction  *)
(* belong to the reactflow library (v11, package 'reactflow'); they are    *)
(* modelled by the library's documented behaviour at the place where the   *)
(* component calls them.                                                   *)
(***************************************************************************)
EXTENDS Integers, Sequences, FiniteSets, TLC

VARIABLES
    nodes,      \* useState nodes: the node list after all queued updaters
    edges,      \* useState edges: the edge list after all queued updaters
    rendered,   \* nodes.length of the `nodes` constant in the last render's closures
    dirty,      \* a state update is queued and the component has not re-rendered
    view,       \* CustomNode local state per rendered node id: isEditing, label
    clock,      \* Date.now()
    adds,       \* number of Add Node clicks handled so far
    gestures,   \* number of canvas gestures (connect, drag, delete) handled so far
    uiEvent,    \* the last event handled by a CustomNode
    flowRef,    \* flowRef.current !== null
    exports,    \* every exportAsImage call made so far: whether it read a canvas
                \* from flowRef.current, and the position it is at
    downloads,  \* file downloads triggered (link.download of each link.click())
    errlog      \* console.error calls

vars == <<nodes, edges, rendered, dirty, view, clock, adds, gestures, uiEvent,
          flowRef, exports, downloads, errlog>>

exportVars == <<flowRef, exports, downloads, errlog>>

\* ------------------------------------------------------------------ bounds
MaxAdds == 2
MaxGestures == 1
MaxExports == 4
MaxTyped == 2

\* ------------------------------------------------------- program constants
RandomScale == 500

SmoothStep == "smoothstep"
Custom == "custom"
FileName == "flowchart.png"
ErrorMessage == "Error exporting image:"
Undefined == "undefined"
Null == "null"

\* -------------------------------------------------------------- seed state
InitialNodes ==
    << [id |-> 1, type |-> Custom, label |-> <<"Start">>,   x |-> 250, y |-> 5],
       [id |-> 2, type |-> Custom, label |-> <<"Process">>, x |-> 250, y |-> 100],
       [id |-> 3, type |-> Custom, label |-> <<"End">>,     x |-> 250, y |-> 200] >>

InitialEdges ==
    << [id |-> <<"e", 1, 2>>, source |-> 1, target |-> 2, type |-> Undefined,
        sourceHandle |-> Undefined, targetHandle |-> Undefined],
       [id |-> <<"e", 2, 3>>, source |-> 2, target |-> 3, type |-> Undefined,
        sourceHandle |-> Undefined, targetHandle |-> Undefined] >>

\* ----------------------------------------------------------------- helpers
Range(s) == {s[i] : i \in 1..Len(s)}

NodeIds(nds) == {nds[i].id : i \in 1..Len(nds)}

\* data.label of the first node carrying the id
LabelOf(nds, id) == nds[CHOOSE i \in 1..Len(nds) : nds[i].id = id /\
                        \A j \in 1..(i - 1) : nds[j].id # id].label

\* a Math.random() that can return 1
MathRandom_Closed == {0, RandomScale}

\* Math.random(): the numerators k of the values k / RandomScale it returns
\* here, the least and the greatest of them (0 <= Math.random() < 1)
MathRandom == {0, RandomScale - 1}

\* Math.random() * 500 for Math.random() = k / RandomScale
Scaled(k) == (k * RandomScale) \div RandomScale

\* the two successive Math.random() calls of one addNode: the draws that differ
RandomDraws == {d \in MathRandom \X MathRandom : d[1] # d[2]}

\* positions a drag can leave a node at (the canvas is unbounded)
DragPositions == {[x |-> 0 - 10, y |-> RandomScale + 100]}

\* ------------------------------------------------ reactflow: applyChanges
RECURSIVE applyChangesTo(_, _)
applyChangesTo(changes, item) ==
    IF changes = <<>> THEN <<item>>
    ELSE LET c == Head(changes) IN
         IF c.id # item.id THEN applyChangesTo(Tail(changes), item)
         ELSE IF c.type = "remove" THEN <<>>
         ELSE IF c.type = "position"
              THEN applyChangesTo(Tail(changes), [item EXCEPT !.x = c.x, !.y = c.y])
         ELSE applyChangesTo(Tail(changes), item)

RECURSIVE applyChanges(_, _)
applyChanges(changes, elements) ==
    IF elements = <<>> THEN <<>>
    ELSE applyChangesTo(changes, Head(elements)) \o applyChanges(changes, Tail(elements))

applyNodeChanges(changes, nds) == applyChanges(changes, nds)

applyEdgeChanges(changes, eds) == applyChanges(changes, eds)

\* ----------------------------------------------------- reactflow: addEdge
Falsy(h) == h \in {Undefined, Null}

getEdgeId(p) == <<"reactflow__edge", p.source, p.target>>

connectionExists(edge, eds) ==
    \E i \in 1..Len(eds) :
        /\ eds[i].source = edge.source
        /\ eds[i].target = edge.target
        /\ (eds[i].sourceHandle = edge.sourceHandle
              \/ (Falsy(eds[i].sourceHandle) /\ Falsy(edge.sourceHandle)))
        /\ (eds[i].targetHandle = edge.targetHandle
              \/ (Falsy(eds[i].targetHandle) /\ Falsy(edge.targetHandle)))

\* an addEdge that does not look for an existing connection
addEdge_NoDedup(edgeParams, eds) ==
    Append(eds, [id |-> getEdgeId(edgeParams),
                 source |-> edgeParams.source, target |-> edgeParams.target,
                 type |-> edgeParams.type,
                 sourceHandle |-> edgeParams.sourceHandle,
                 targetHandle |-> edgeParams.targetHandle])

addEdge(edgeParams, eds) ==
    LET edge == [id |-> getEdgeId(edgeParams),
                 source |-> edgeParams.source, target |-> edgeParams.target,
                 type |-> edgeParams.type,
                 sourceHandle |-> edgeParams.sourceHandle,
                 targetHandle |-> edgeParams.targetHandle]
    IN IF connectionExists(edge, eds) THEN eds ELSE Append(eds, edge)

\* only the edges that start at one of the given node ids
getConnectedEdges_SourceOnly(ids, eds) ==
    {eds[i].id : i \in {j \in 1..Len(eds) : eds[j].source \in ids}}

\* edges that start or end at one of the given node ids
getConnectedEdges(ids, eds) ==
    {eds[i].id : i \in {j \in 1..Len(eds) : eds[j].source \in ids \/ eds[j].target \in ids}}

SetToSeq(S) == CHOOSE s \in [1..Cardinality(S) -> S] : Range(s) = S

RemoveChanges(ids) ==
    LET s == SetToSeq(ids)
    IN [i \in 1..Len(s) |-> [type |-> "remove", id |-> s[i], x |-> 0, y |-> 0]]

\* -------------------------------------------------------------- rendering
Synced == ~dirty

\* CustomNode instances after a render: kept by key (node id), created with
\* useState(false) and useState(data.label), dropped when the node is gone
ViewAfterRender(nds) ==
    [id \in NodeIds(nds) |->
        IF id \in DOMAIN view THEN view[id]
        ELSE [isEditing |-> FALSE, label |-> LabelOf(nds, id)]]

NoEvent == [op |-> "none", id |-> 0, arg |-> <<>>]

Init ==
    /\ nodes = InitialNodes
    /\ edges = InitialEdges
    /\ rendered = Len(InitialNodes)
    /\ dirty = FALSE
    /\ view = [id \in NodeIds(InitialNodes) |->
                  [isEditing |-> FALSE, label |-> LabelOf(InitialNodes, id)]]
    /\ clock = Len(InitialNodes) + 1
    /\ adds = 0
    /\ gestures = 0
    /\ uiEvent = NoEvent
    /\ flowRef = TRUE
    /\ exports = <<>>
    /\ downloads = <<>>
    /\ errlog = <<>>

\* ------------------------------------------------------ FlowchartMaker
\* React commits the queued state updates and re-renders
Render ==
    /\ dirty
    /\ rendered' = Len(nodes)
    /\ dirty' = FALSE
    /\ view' = ViewAfterRender(nodes)
    /\ UNCHANGED <<nodes, edges, clock, adds, gestures, uiEvent>>
    /\ UNCHANGED exportVars

\* the millisecond clock advances; an advance shows only once the current
\* value has been used as a node id
Tick ==
    /\ clock \in NodeIds(nodes)
    /\ clock' = clock + 1
    /\ UNCHANGED <<nodes, edges, rendered, dirty, view, adds, gestures, uiEvent>>
    /\ UNCHANGED exportVars

\* r1, r2: what the two Math.random() calls return
NewNode(r1, r2) ==
    [id |-> clock, type |-> Custom,
     label |-> <<"Step", rendered + 1>>, x |-> Scaled(r1), y |-> Scaled(r2)]

\* click on "Add Node"
addNode(r1, r2) ==
    /\ adds < MaxAdds
    /\ nodes' = Append(nodes, NewNode(r1, r2))
    /\ adds' = adds + 1
    /\ dirty' = TRUE
    /\ UNCHANGED <<edges, rendered, view, clock, gestures, uiEvent>>
    /\ UNCHANGED exportVars

\* a connection drawn from s's source handle to t's target handle
onConnect(s, t) ==
    /\ Synced
    /\ gestures < MaxGestures
    /\ s \in NodeIds(nodes) /\ t \in NodeIds(nodes)
    /\ edges' = addEdge([source |-> s, target |-> t, sourceHandle |-> Null,
                         targetHandle |-> Null, type |-> SmoothStep], edges)
    /\ gestures' = gestures + 1
    /\ dirty' = TRUE
    /\ UNCHANGED <<nodes, rendered, view, clock, adds, uiEvent>>
    /\ UNCHANGED exportVars

\* a node is dragged: onNodesChange with a position change
DragNode(id, p) ==
    /\ Synced
    /\ gestures < MaxGestures
    /\ id \in NodeIds(nodes)
    /\ gestures' = gestures + 1
    /\ nodes' = applyNodeChanges(
                   <<[type |-> "position", id |-> id, x |-> p.x, y |-> p.y]>>, nodes)
    /\ dirty' = TRUE
    /\ UNCHANGED <<edges, rendered, view, clock, adds, uiEvent>>
    /\ UNCHANGED exportVars

\* the selected node is deleted with the delete key: the library calls
\* onEdgesChange with a removal of every connected edge and then
\* onNodesChange with the removal of the node
DeleteNode(id) ==
    /\ Synced
    /\ gestures < MaxGestures
    /\ id \in NodeIds(nodes)
    /\ edges' = applyEdgeChanges(RemoveChanges(getConnectedEdges({id}, edges)), edges)
    /\ nodes' = applyNodeChanges(RemoveChanges({id}), nodes)
    /\ gestures' = gestures + 1
    /\ dirty' = TRUE
    /\ UNCHANGED <<rendered, view, clock, adds, uiEvent>>
    /\ UNCHANGED exportVars

\* the selected edge is deleted with the delete key: onEdgesChange
DeleteEdge(eid) ==
    /\ Synced
    /\ gestures < MaxGestures
    /\ eid \in {edges[i].id : i \in 1..Len(edges)}
    /\ gestures' = gestures + 1
    /\ edges' = applyEdgeChanges(RemoveChanges({eid}), edges)
    /\ dirty' = TRUE
    /\ UNCHANGED <<nodes, rendered, view, clock, adds, uiEvent>>
    /\ UNCHANGED exportVars

AllIds == 1..(Len(InitialNodes) + 1 + MaxAdds)

\* ---------------------------------------------------------- exportAsImage
\* the component is unmounted: React clears the ref of the canvas container
Unmount ==
    /\ flowRef
    /\ flowRef' = FALSE
    /\ UNCHANGED <<nodes, edges, rendered, dirty, view, clock, adds, gestures, uiEvent>>
    /\ UNCHANGED <<exports, downloads, errlog>>

\* an exportAsImage without the check of flowRef.current
exportAsImage_NoGuard ==
    /\ Len(exports) < MaxExports
    /\ exports' = Append(exports, [canvas |-> flowRef, pc |-> "awaiting"])
    /\ UNCHANGED <<nodes, edges, rendered, dirty, view, clock, adds, gestures, uiEvent>>
    /\ UNCHANGED <<flowRef, downloads, errlog>>

\* exportAsImage is called: it returns at once without a canvas, and
\* otherwise suspends in `await toPng(...)`
exportAsImage ==
    /\ Len(exports) < MaxExports
    /\ exports' = Append(exports, [canvas |-> flowRef,
                                   pc |-> IF flowRef THEN "awaiting" ELSE "returned"])
    /\ UNCHANGED <<nodes, edges, rendered, dirty, view, clock, adds, gestures, uiEvent>>
    /\ UNCHANGED <<flowRef, downloads, errlog>>

\* the rasterization of call r succeeds: the link is built and clicked
toPngResolved(r) ==
    /\ r \in 1..Len(exports)
    /\ exports[r].pc = "awaiting"
    /\ downloads' = Append(downloads, FileName)
    /\ exports' = [exports EXCEPT ![r].pc = "downloaded"]
    /\ UNCHANGED <<nodes, edges, rendered, dirty, view, clock, adds, gestures, uiEvent>>
    /\ UNCHANGED <<flowRef, errlog>>

\* a catch block that logs and still offers the download
toPngRejected_AlsoDownloads(r) ==
    /\ r \in 1..Len(exports)
    /\ exports[r].pc = "awaiting"
    /\ errlog' = Append(errlog, ErrorMessage)
    /\ downloads' = Append(downloads, FileName)
    /\ exports' = [exports EXCEPT ![r].pc = "logged"]
    /\ UNCHANGED <<nodes, edges, rendered, dirty, view, clock, adds, gestures, uiEvent>>
    /\ UNCHANGED flowRef

\* the rasterization of call r fails: the catch block logs the error
toPngRejected(r) ==
    /\ r \in 1..Len(exports)
    /\ exports[r].pc = "awaiting"
    /\ errlog' = Append(errlog, ErrorMessage)
    /\ exports' = [exports EXCEPT ![r].pc = "logged"]
    /\ UNCHANGED <<nodes, edges, rendered, dirty, view, clock, adds, gestures, uiEvent>>
    /\ UNCHANGED <<flowRef, downloads>>

\* -------------------------------------------------------------- CustomNode
Keys == {"Enter", "Escape"}

\* what e.target.value can be: a typed text, or the node's label typed again
InputValues(id) == {<<"typed", k>> : k \in 1..MaxTyped} \cup {LabelOf(nodes, id)}

\* the state updates of FlowchartMaker and of the export do not touch a CustomNode
EditFrame == UNCHANGED <<nodes, edges, rendered, dirty, clock, adds, gestures,
                         flowRef, exports, downloads, errlog>>

\* double click on the displayed label
onDoubleClick(id) ==
    /\ id \in DOMAIN view
    /\ ~view[id].isEditing
    /\ view' = [view EXCEPT ![id].isEditing = TRUE]
    /\ uiEvent' = [op |-> "doubleClick", id |-> id, arg |-> <<>>]
    /\ EditFrame

\* the text of the input changes
onChange(id, value) ==
    /\ id \in DOMAIN view
    /\ view[id].isEditing
    /\ view' = [view EXCEPT ![id].label = value]
    /\ uiEvent' = [op |-> "change", id |-> id, arg |-> value]
    /\ EditFrame

\* a blur handler that writes the typed text into the node list
onBlur_Commit(id) ==
    /\ id \in DOMAIN view
    /\ view[id].isEditing
    /\ view' = [view EXCEPT ![id].isEditing = FALSE]
    /\ uiEvent' = [op |-> "blur", id |-> id, arg |-> <<>>]
    /\ nodes' = [i \in 1..Len(nodes) |->
                    IF nodes[i].id = id
                    THEN [nodes[i] EXCEPT !.label = view[id].label]
                    ELSE nodes[i]]
    /\ UNCHANGED <<edges, rendered, dirty, clock, adds, gestures,
                   flowRef, exports, downloads, errlog>>

\* the input loses the focus
onBlur(id) ==
    /\ id \in DOMAIN view
    /\ view[id].isEditing
    /\ view' = [view EXCEPT ![id].isEditing = FALSE]
    /\ uiEvent' = [op |-> "blur", id |-> id, arg |-> <<>>]
    /\ EditFrame

\* a key handler that leaves edit mode on every key
onKeyDown_AnyKey(id, key) ==
    /\ id \in DOMAIN view
    /\ view[id].isEditing
    /\ view' = [view EXCEPT ![id].isEditing = FALSE]
    /\ uiEvent' = [op |-> "keyDown", id |-> id, arg |-> <<key>>]
    /\ EditFrame

\* a key is pressed in the input
onKeyDown(id, key) ==
    /\ id \in DOMAIN view
    /\ view[id].isEditing
    /\ view' = IF key = "Enter" THEN [view EXCEPT ![id].isEditing = FALSE] ELSE view
    /\ uiEvent' = [op |-> "keyDown", id |-> id, arg |-> <<key>>]
    /\ EditFrame

\* ---------------------------------------------------------- specifications
NextGraph ==
    \/ Render
    \/ Tick
    \/ \E d \in RandomDraws : addNode(d[1], d[2])
    \/ \E s \in AllIds, t \in AllIds : onConnect(s, t)
    \/ \E id \in AllIds, p \in DragPositions : DragNode(id, p)
    \/ \E id \in AllIds : DeleteNode(id)
    \/ \E i \in 1..(Len(InitialEdges) + MaxGestures) : i <= Len(edges) /\ DeleteEdge(edges[i].id)

\* the graph: add node, connect, node changes, edge changes
SpecGraph == Init /\ [][NextGraph]_vars

NextExport ==
    \/ Unmount
    \/ exportAsImage
    \/ \E r \in 1..MaxExports : toPngResolved(r)
    \/ \E r \in 1..MaxExports : toPngRejected(r)

\* the export: any number of overlapping exportAsImage calls
SpecExport == Init /\ [][NextExport]_vars

NextEdit ==
    \/ \E id \in DOMAIN view : onDoubleClick(id)
    \/ \E id \in DOMAIN view : \E value \in InputValues(id) : onChange(id, value)
    \/ \E id \in DOMAIN view : onBlur(id)
    \/ \E id \in DOMAIN view, key \in Keys : onKeyDown(id, key)

\* the inline label editors of the rendered nodes
SpecEdit == Init /\ [][NextEdit]_vars

Next == NextGraph \/ NextExport \/ NextEdit

Spec == Init /\ [][Next]_vars

\* ------------------------------------------------------------------ claims
Last(q) == q[Len(q)]

HasEdge(eds, s, t) == \E i \in 1..Len(eds) : eds[i].source = s /\ eds[i].target = t

\* C1: every Add Node appends exactly one node, whose x and y lie in
\* [0, RandomScale), and leaves the nodes that existed and the edge list as
\* they were.
C1_AddNodeFrame ==
    [][adds' # adds =>
          /\ Len(nodes') = Len(nodes) + 1
          /\ SubSeq(nodes', 1, Len(nodes)) = nodes
          /\ edges' = edges
          /\ Last(nodes').x >= 0 /\ Last(nodes').x < RandomScale
          /\ Last(nodes').y >= 0 /\ Last(nodes').y < RandomScale]_vars

\* one Add Node from the start state: 4 nodes, 2 edges, the new node "Step 4"
C1_Witness ==
    /\ adds = 1
    /\ Len(nodes) = 4 /\ Len(edges) = 2
    /\ Last(nodes).label = <<"Step", 4>>

\* C2: the node an Add Node appends to a list of n nodes is labelled
\* "Step n+1", also when the component has not re-rendered since the
\* previous Add Node.
C2_LabelAutoIncrement ==
    [][adds' # adds => Last(nodes').label = <<"Step", Len(nodes) + 1>>]_vars

\* C3: no two nodes of the node list have the same id.
C3_UniqueNodeIds ==
    \A i \in 1..Len(nodes) : \A j \in 1..Len(nodes) :
        i # j => nodes[i].id # nodes[j].id

\* C4 as claimed: every connect event from s to t appends exactly one edge
\* from s to t of type 'smoothstep', whatever the edge list holds, and
\* leaves the other edges and the nodes as they were.
C4_ConnectAlwaysAddsOneEdge ==
    [][\A s \in AllIds : \A t \in AllIds :
          onConnect(s, t) =>
              /\ Len(edges') = Len(edges) + 1
              /\ SubSeq(edges', 1, Len(edges)) = edges
              /\ Last(edges').source = s /\ Last(edges').target = t
              /\ Last(edges').type = SmoothStep
              /\ nodes' = nodes]_vars

\* C4 as amended: a connect event from s to t appends exactly one edge from
\* s to t of type 'smoothstep' when the edge list holds no edge from s to t,
\* and leaves the edge list as it was when it holds one; the nodes are left
\* as they were.
C4_ConnectAddsOneEdgeUnlessPresent ==
    [][\A s \in AllIds : \A t \in AllIds :
          onConnect(s, t) =>
              /\ nodes' = nodes
              /\ IF HasEdge(edges, s, t)
                 THEN edges' = edges
                 ELSE /\ Len(edges') = Len(edges) + 1
                      /\ SubSeq(edges', 1, Len(edges)) = edges
                      /\ Last(edges').source = s /\ Last(edges').target = t
                      /\ Last(edges').type = SmoothStep]_vars

\* a connect event has appended an edge, here from node 2 to node 1
C4_Witness ==
    /\ gestures = 1
    /\ Len(edges) = 3
    /\ Last(edges).source = 2 /\ Last(edges).target = 1
    /\ Last(edges).type = SmoothStep

\* C5: the source and the target of every edge are ids of nodes of the node
\* list.
C5_EdgesReferenceNodes ==
    \A i \in 1..Len(edges) :
        edges[i].source \in NodeIds(nodes) /\ edges[i].target \in NodeIds(nodes)

\* node 2, the end of both seed edges, has been deleted
C5_Witness ==
    /\ gestures = 1
    /\ NodeIds(nodes) = {1, 3}
    /\ edges = <<>>

Count(q, v) == Cardinality({i \in 1..Len(q) : q[i].pc = v})

\* C6: the downloads are as many as the export calls that had a canvas and
\* whose rasterization succeeded, each is named 'flowchart.png', and a call
\* without a canvas or with a failed rasterization ends without a download.
C6_OneDownloadPerSuccess ==
    /\ Len(downloads) =
           Cardinality({r \in 1..Len(exports) :
                           exports[r].canvas /\ exports[r].pc = "downloaded"})
    /\ \A i \in 1..Len(downloads) : downloads[i] = FileName
    /\ \A r \in 1..Len(exports) :
           /\ exports[r].pc \in {"awaiting", "returned", "downloaded", "logged"}
           /\ ~exports[r].canvas => exports[r].pc = "returned"

\* overlapping calls: the second has downloaded while the first is pending,
\* a third has failed and a fourth found no canvas
C6_Witness ==
    /\ Len(exports) = 4
    /\ exports[1].pc = "awaiting" /\ exports[2].pc = "downloaded"
    /\ exports[3].pc = "logged" /\ exports[4].pc = "returned"
    /\ Len(downloads) = 1

\* C7: a failed rasterization is logged once and ends the call: no
\* download, no retry, the node list, the edge list and the canvas
\* reference as they were, so that what was enabled stays enabled.
C7_FailureIsLoggedOnly ==
    [][\A r \in 1..MaxExports :
          /\ (r <= Len(exports) /\ exports[r].pc = "awaiting"
                                 /\ exports'[r].pc = "logged") =>
                /\ errlog' = Append(errlog, ErrorMessage)
                /\ downloads' = downloads
                /\ nodes' = nodes /\ edges' = edges /\ flowRef' = flowRef
                /\ \A q \in 1..Len(exports) : q # r => exports'[q] = exports[q]
          /\ (r <= Len(exports) /\ exports[r].pc = "logged") =>
                exports'[r].pc = "logged" /\ Len(errlog') >= Len(errlog)
          /\ Len(errlog') = Count(exports', "logged")]_vars

\* a rasterization has failed, and a call made with it is still pending
C7_Witness ==
    /\ Len(exports) >= 2
    /\ exports[1].pc = "logged" /\ exports[2].pc = "awaiting"
    /\ errlog = <<ErrorMessage>>
    /\ downloads = <<>>

\* the step is an event handled by a CustomNode
EditStep == uiEvent' # uiEvent \/ view' # view

\* C8: the editing flag is false at first; a double click sets it, a blur
\* or the Enter key clears it, a change of the text or another key leaves
\* it set, and an event on one node leaves the flag of every other node as
\* it was.
C8_EditingToggle ==
    /\ \A id \in DOMAIN view : ~view[id].isEditing
    /\ [][EditStep =>
            LET e == uiEvent' IN
            /\ \A other \in DOMAIN view \ {e.id} :
                   view'[other].isEditing = view[other].isEditing
            /\ e.op = "doubleClick" => ~view[e.id].isEditing /\ view'[e.id].isEditing
            /\ e.op = "blur" => view[e.id].isEditing /\ ~view'[e.id].isEditing
            /\ (e.op = "keyDown" /\ e.arg = <<"Enter">>) =>
                   view[e.id].isEditing /\ ~view'[e.id].isEditing
            /\ (e.op = "keyDown" /\ e.arg # <<"Enter">>) =>
                   view[e.id].isEditing /\ view'[e.id].isEditing
            /\ e.op = "change" => view[e.id].isEditing /\ view'[e.id].isEditing]_vars

\* node 1 has left edit mode by the Enter key while node 2 is still edited
C8_Witness ==
    /\ uiEvent.op = "keyDown" /\ uiEvent.arg = <<"Enter">> /\ uiEvent.id = 1
    /\ ~view[1].isEditing
    /\ view[2].isEditing

\* C9: whenever a node enters edit mode, the input shows the node's
\* current label (data.label).
C9_InputSeededWithLabel ==
    [][(EditStep /\ uiEvent'.op = "doubleClick") =>
          view'[uiEvent'.id].label = LabelOf(nodes', uiEvent'.id)]_vars

\* C10: no event of a label editor changes the node list or the edge list:
\* the label displayed after an edit is the label displayed before it.
C10_EditNeverCommitted ==
    [][EditStep =>
          /\ nodes' = nodes
          /\ edges' = edges
          /\ \A id \in DOMAIN view : LabelOf(nodes', id) = LabelOf(nodes, id)]_vars

\* node 1 has left edit mode with a typed text that is not its label
C10_Witness ==
    /\ uiEvent.op \in {"blur", "keyDown"} /\ uiEvent.id = 1
    /\ ~view[1].isEditing
    /\ view[1].label = <<"typed", 1>>
    /\ LabelOf(nodes, 1) = <<"Start">>

====
